---- MODULE Spec2Model ----
(***************************************************************************)
(* A model of the invoice extraction service: the upload pipeline          *)
(* (main.py upload_invoice, service.py process_invoice_with_vllm,          *)
(* crud.py create_invoice_log), the read side (read_logs,                  *)
(* preview_log_image) and the pure steps they are built from (the markdown *)
(* cleanup, JSON parsing, schema validation, the listing query).           *)
(*                                                                         *)
(* Text is a sequence of tokens.  FENCE stands for the three backquotes of *)
(* a markdown fence (a backquote cannot be written in a TLA+ string); the  *)
(* other tokens are spelled as they are.  No other token contains a        *)
(* backquote and no token but "json" contains the letters of the tag, so   *)
(* Python's character level find/split/replace on the fence markers        *)
(* coincide with the token level ones defined here.                        *)
(***************************************************************************)
EXTENDS Integers, Sequences, FiniteSets, TLC

VARIABLES
    invoice_logs,   \* the rows of table invoice_logs (models.py)
    next_id,        \* the next value of the id sequence of invoice_logs
    now,            \* the database server's clock, func.now()
    upload,         \* per upload request: its position, locals and response
    call,           \* the read request, or pure call, last made
    response        \* what that request returned to its caller

vars == <<invoice_logs, next_id, now, upload, call, response>>

None == [t |-> "None"]

(***************************************************************************)
(* Python str operations, on token sequences.                              *)
(***************************************************************************)
IsAt(s, sep, i) ==
    /\ i >= 1
    /\ i + Len(sep) - 1 <= Len(s)
    /\ SubSeq(s, i, i + Len(sep) - 1) = sep

\* str.find, 1-based; 0 when sep does not occur at or after from
Find(s, sep, from) ==
    LET hits == {i \in from..Len(s) : IsAt(s, sep, i)}
    IN  IF hits = {} THEN 0 ELSE CHOOSE i \in hits : \A j \in hits : i <= j

\* sep in s
Contains(s, sep) == Find(s, sep, 1) # 0

\* s.split(sep): the pieces between the non-overlapping occurrences of sep,
\* scanned left to right
RECURSIVE Split(_, _)
Split(s, sep) ==
    LET i == Find(s, sep, 1)
    IN  IF i = 0 THEN <<s>>
        ELSE <<SubSeq(s, 1, i - 1)>> \o Split(SubSeq(s, i + Len(sep), Len(s)), sep)

RECURSIVE Join(_)
Join(pieces) ==
    IF pieces = <<>> THEN <<>> ELSE Head(pieces) \o Join(Tail(pieces))

\* s.replace(sep, "")
Remove(s, sep) == Join(Split(s, sep))

Whitespace == {" ", "\n"}

\* s.strip()
Strip(s) ==
    LET keep == {i \in 1..Len(s) : s[i] \notin Whitespace}
    IN  IF keep = {} THEN <<>>
        ELSE SubSeq(s, CHOOSE i \in keep : \A j \in keep : i <= j,
                       CHOOSE i \in keep : \A j \in keep : i >= j)

(***************************************************************************)
(* service.py 75-79: cleanup of markdown code blocks in the model's text.  *)
(***************************************************************************)
FENCE == "FENCE"
Fence == <<FENCE>>
TaggedFence == <<FENCE, "json">>

CleanupGenericFirst(content) ==
    IF Contains(content, Fence)
    THEN Strip(Remove(content, Fence))
    ELSE content

Cleanup(content) ==
    IF Contains(content, TaggedFence)
    THEN Strip(Split(Split(content, TaggedFence)[2], Fence)[1])
    ELSE IF Contains(content, Fence)
    THEN Strip(Remove(content, Fence))
    ELSE content

(***************************************************************************)
(* JSON values, and Python's None and str, as tagged records.              *)
(***************************************************************************)
JNull == [t |-> "null"]
JStr(s) == [t |-> "str", v |-> s]
JNum(n) == [t |-> "num", v |-> n]
JArr(s) == [t |-> "arr", v |-> s]
JObj(f) == [t |-> "obj", v |-> f]
EmptyObj == JObj([k \in {} |-> JNull])

(***************************************************************************)
(* schemas.py: the fields of each model, in declaration order.  A field    *)
(* declared with Field(...) and no default is required; one declared       *)
(* "= None" or Field(None, ...) has the default None.                      *)
(***************************************************************************)
Fld(name, kind, required) == [name |-> name, kind |-> kind, required |-> required]

InvoiceItem == <<
    Fld("description", "str", TRUE),
    Fld("quantity", "Optional[str]", FALSE),
    Fld("unit_price", "Optional[str]", FALSE),
    Fld("total_price", "Optional[str]", FALSE) >>

VendorInfo == <<
    Fld("name_english", "Optional[str]", FALSE),
    Fld("name_nepali", "Optional[str]", FALSE),
    Fld("address", "Optional[str]", FALSE),
    Fld("phone", "Optional[str]", FALSE),
    Fld("email", "Optional[str]", FALSE),
    Fld("vat_number", "Optional[str]", FALSE) >>

CustomerInfo == <<
    Fld("name", "Optional[str]", FALSE),
    Fld("address", "Optional[str]", FALSE),
    Fld("vat_number", "Optional[str]", FALSE) >>

Summary == <<
    Fld("subtotal", "Optional[str]", FALSE),
    Fld("tax_amount", "Optional[str]", FALSE),
    Fld("tax_rate_percent", "Optional[str]", FALSE),
    Fld("discount_amount", "Optional[str]", FALSE),
    Fld("total_amount_due", "Optional[str]", FALSE),
    Fld("amount_in_words", "Optional[str]", FALSE),
    Fld("has_company_stamp", "str", TRUE) >>

InvoiceData == <<
    Fld("invoice_number", "Optional[str]", FALSE),
    Fld("transaction_number", "Optional[str]", FALSE),
    Fld("reference_number", "Optional[str]", FALSE),
    Fld("invoice_date_ad", "Optional[str]", FALSE),
    Fld("invoice_miti_bs", "Optional[str]", FALSE),
    Fld("vendor_info", "VendorInfo", TRUE),
    Fld("customer_info", "CustomerInfo", TRUE),
    Fld("line_items", "List[InvoiceItem]", TRUE),
    Fld("summary", "Summary", TRUE) >>

Models == [InvoiceItem |-> InvoiceItem, VendorInfo |-> VendorInfo,
           CustomerInfo |-> CustomerInfo, Summary |-> Summary,
           InvoiceData |-> InvoiceData]

ModelNames == DOMAIN Models
FieldsOf(model) == {Models[model][i] : i \in DOMAIN Models[model]}
FieldNames(model) == {f.name : f \in FieldsOf(model)}

\* the location of a list element in an error's loc, written as pydantic does
IndexStr == <<"0", "1", "2", "3">>

(***************************************************************************)
(* pydantic's validation of a parsed value against a field's annotation:   *)
(* the errors in order, each with its loc (the field path) and its type.   *)
(* str takes a str only; Optional[str] a str or None; a model a dict, of   *)
(* which each declared key is validated when present, reported "missing"   *)
(* when absent and required, and defaulted when absent and not required;   *)
(* keys that are not declared are ignored.                                  *)
(***************************************************************************)
Err(loc, type) == [loc |-> loc, type |-> type]

RECURSIVE ValidationErrors(_, _, _)
RECURSIVE ModelErrors(_, _, _, _)
RECURSIVE ItemErrors(_, _, _)

\* the errors of the fields i.. of model, in declaration order
ModelErrorsNoneRequired(model, x, loc, i) ==
    IF i > Len(Models[model]) THEN <<>>
    ELSE LET f == Models[model][i]
         IN  (IF f.name \in DOMAIN x.v
              THEN ValidationErrors(f.kind, x.v[f.name], loc \o <<f.name>>)
              ELSE <<>>)
             \o ModelErrors(model, x, loc, i + 1)

ModelErrors(model, x, loc, i) ==
    IF i > Len(Models[model]) THEN <<>>
    ELSE LET f == Models[model][i]
         IN  (IF f.name \in DOMAIN x.v
              THEN ValidationErrors(f.kind, x.v[f.name], loc \o <<f.name>>)
              ELSE IF f.required THEN <<Err(loc \o <<f.name>>, "missing")>> ELSE <<>>)
             \o ModelErrors(model, x, loc, i + 1)

\* the errors of the elements i.. of a list of InvoiceItem
ItemErrors(x, loc, i) ==
    IF i > Len(x.v) THEN <<>>
    ELSE ValidationErrors("InvoiceItem", x.v[i], loc \o <<IndexStr[i]>>)
         \o ItemErrors(x, loc, i + 1)

ValidationErrors(kind, x, loc) ==
    IF kind = "str"
    THEN IF x.t = "str" THEN <<>> ELSE <<Err(loc, "string_type")>>
    ELSE IF kind = "Optional[str]"
    THEN IF x.t \in {"str", "null"} THEN <<>> ELSE <<Err(loc, "string_type")>>
    ELSE IF kind = "List[InvoiceItem]"
    THEN IF x.t # "arr" THEN <<Err(loc, "list_type")>> ELSE ItemErrors(x, loc, 1)
    ELSE IF x.t # "obj" THEN <<Err(loc, "model_type")>>
    ELSE ModelErrors(kind, x, loc, 1)

(***************************************************************************)
(* The model instance pydantic builds from a value that validated: every   *)
(* declared field set, an absent optional one to its default None, and the *)
(* undeclared keys dropped.                                                 *)
(***************************************************************************)
Instance(cls, fields) == [t |-> "model", cls |-> cls, v |-> fields]

RECURSIVE Construct(_, _)
Construct(kind, x) ==
    IF kind \in {"str", "Optional[str]"} THEN x
    ELSE IF kind = "List[InvoiceItem]"
    THEN [t |-> "list", v |-> [i \in DOMAIN x.v |-> Construct("InvoiceItem", x.v[i])]]
    ELSE Instance(kind,
            [n \in FieldNames(kind) |->
                LET f == CHOOSE g \in FieldsOf(kind) : g.name = n
                IN  IF n \in DOMAIN x.v THEN Construct(f.kind, x.v[n]) ELSE JNull])

\* InvoiceData.model_validate(raw_json): the instance, or a ValidationError
ModelValidate(raw_json) ==
    LET errors == ValidationErrors("InvoiceData", raw_json, <<>>)
    IN  IF errors = <<>>
        THEN [ok |-> TRUE, value |-> Construct("InvoiceData", raw_json)]
        ELSE [ok |-> FALSE, cls |-> "ValidationError", errors |-> errors]

\* data.model_dump(mode='json'): the instance as JSON, every field a key
RECURSIVE ModelDump(_)
ModelDump(data) ==
    IF data.t = "model" THEN JObj([n \in DOMAIN data.v |-> ModelDump(data.v[n])])
    ELSE IF data.t = "list" THEN JArr([i \in DOMAIN data.v |-> ModelDump(data.v[i])])
    ELSE data

(***************************************************************************)
(* json.loads on a token sequence.  A token that spells a JSON document    *)
(* parses to the value JsonDocs gives it; surrounding whitespace is        *)
(* skipped; anything else (no document, prose, two documents, the word     *)
(* json before the document) is a JSONDecodeError.                         *)
(***************************************************************************)
DocMinimal ==
    "{\"vendor_info\":{},\"customer_info\":{},\"line_items\":[],\"summary\":{\"has_company_stamp\":\"Yes\"}}"
DocItem ==
    "{\"invoice_number\":\"7\",\"vendor_info\":{\"phone\":null},\"customer_info\":{},\"line_items\":[{\"description\":\"tea\"}],\"summary\":{\"has_company_stamp\":\"No\"},\"note\":1}"
DocNoStamp ==
    "{\"vendor_info\":{},\"customer_info\":{},\"line_items\":[],\"summary\":{}}"

JsonDocs ==
    [d \in {"{}", "[]", DocMinimal, DocItem, DocNoStamp} |->
        CASE d = "{}" -> EmptyObj
          [] d = "[]" -> JArr(<<>>)
          [] d = DocMinimal ->
                JObj([k \in {"vendor_info", "customer_info", "line_items", "summary"} |->
                    CASE k = "line_items" -> JArr(<<>>)
                      [] k = "summary" -> JObj([j \in {"has_company_stamp"} |-> JStr("Yes")])
                      [] OTHER -> EmptyObj])
          [] d = DocItem ->
                JObj([k \in {"invoice_number", "vendor_info", "customer_info",
                            "line_items", "summary", "note"} |->
                    CASE k = "invoice_number" -> JStr("7")
                      [] k = "vendor_info" -> JObj([j \in {"phone"} |-> JNull])
                      [] k = "customer_info" -> EmptyObj
                      [] k = "line_items" ->
                            JArr(<<JObj([j \in {"description"} |-> JStr("tea")])>>)
                      [] k = "summary" -> JObj([j \in {"has_company_stamp"} |-> JStr("No")])
                      [] k = "note" -> JNum(1)])
          [] d = DocNoStamp ->
                JObj([k \in {"vendor_info", "customer_info", "line_items", "summary"} |->
                    IF k = "line_items" THEN JArr(<<>>) ELSE EmptyObj])]

JsonLoads(content) ==
    LET s == Strip(content)
    IN  IF Len(s) = 1 /\ s[1] \in DOMAIN JsonDocs
        THEN [ok |-> TRUE, value |-> JsonDocs[s[1]]]
        ELSE [ok |-> FALSE, cls |-> "JSONDecodeError"]

(***************************************************************************)
(* Exceptions: the class and str(e), a sequence of message parts.          *)
(***************************************************************************)
Exc(cls, msg) == [cls |-> cls, msg |-> msg]

StatusText == [c \in {200, 400, 404, 500, 503} |->
                 CASE c = 200 -> "200" [] c = 400 -> "400" [] c = 404 -> "404"
                   [] c = 500 -> "500" [] c = 503 -> "503"]

\* fastapi.HTTPException(status_code, detail); its str() is "<status>: <detail>"
HTTPException(status_code, detail) ==
    [cls |-> "HTTPException", status_code |-> status_code, detail |-> detail,
     msg |-> <<StatusText[status_code], ": ">> \o detail]

\* the response FastAPI makes of an HTTPException that leaves a handler
ErrorResponse(e) == [status |-> e.status_code, cls |-> e.cls, detail |-> e.detail]

\* the response to an exception that is not an HTTPException: the server's
\* plain 500, no detail
UnhandledResponse(e) == [status |-> 500, cls |-> "unhandled " \o e.cls, detail |-> <<>>]

(***************************************************************************)
(* File bytes are a sequence of chunks; len() counts them.  A PNG is the   *)
(* header chunk and the pixel data, a PDF the header and one chunk a page. *)
(***************************************************************************)
PngBytes == <<"PNG", "pixels">>
TruncatedPngBytes == <<"PNG">>
PdfBytes == <<"PDF", "page1", "page2">>
EmptyPdfBytes == <<"PDF">>
JunkBytes == <<"junk", "junk">>

\* PIL.Image.open(BytesIO(b)) reads the header only: an image whose pixel
\* data is decoded when first needed, or UnidentifiedImageError (an OSError)
ImageOpen(b) ==
    IF b # <<>> /\ b[1] = "PNG"
    THEN [ok |-> TRUE,
          value |-> [format |-> "PNG",
                     pixels |-> IF Len(b) >= 2 THEN b[2] ELSE "truncated"]]
    ELSE [ok |-> FALSE,
          exc |-> Exc("UnidentifiedImageError", <<"cannot identify image file">>)]

\* service.py 12-20, pdf_to_images: one image a page, in page order; any
\* failure of the renderer is raised as ValueError
pdf_to_images(file_bytes) ==
    IF file_bytes # <<>> /\ file_bytes[1] = "PDF"
    THEN [ok |-> TRUE,
          value |-> [i \in 1..(Len(file_bytes) - 1) |->
                        [format |-> "PPM", pixels |-> file_bytes[i + 1]]]]
    ELSE [ok |-> FALSE,
          exc |-> Exc("ValueError", <<"Failed to convert PDF to image: ",
                                      "Unable to get page count.">>)]

\* service.py 22-30, encode_image_to_base64: convert("RGB") decodes the pixel
\* data (OSError when it is truncated), then JPEG, then base64
encode_image_to_base64(image) ==
    IF image.pixels = "truncated"
    THEN [ok |-> FALSE, exc |-> Exc("OSError", <<"image file is truncated">>)]
    ELSE [ok |-> TRUE,
          value |-> [encoding |-> "base64", format |-> "JPEG", mode |-> "RGB",
                     pixels |-> image.pixels]]

(***************************************************************************)
(* The upload pipeline.                                                    *)
(***************************************************************************)
\* the upload requests made, numbered in their order of arrival
NumUploads == 2
Uploads == 1..NumUploads

PyStr(s) == [t |-> "str", v |-> s]

\* the result of a step that raised e; at names the statement that raised
Raise(e, at) == [ok |-> FALSE, exc |-> e, at |-> at]

NormalizeDecodeFirst(content, content_type) ==
    LET image == ImageOpen(content)
        images == pdf_to_images(content)
    IN  IF image.ok THEN [ok |-> TRUE, value |-> image.value, decoders |-> <<"Image.open">>]
        ELSE IF content_type.t = "None"
        THEN Raise(Exc("TypeError", <<"argument of type 'NoneType' is not iterable">>),
                   "content_type") @@ [decoders |-> <<"Image.open">>]
        ELSE IF Contains(content_type.v, <<"application/pdf">>) /\ images.ok
                /\ images.value # <<>>
        THEN [ok |-> TRUE, value |-> images.value[1],
              decoders |-> <<"Image.open", "pdf_to_images">>]
        ELSE Raise(HTTPException(400, <<"Unsupported file type. Use PDF or Image.">>),
                   "unsupported") @@ [decoders |-> <<"Image.open">>]

\* main.py 66-77: the canonical image of the upload, with the decoders called
Normalize(content, content_type) ==
    IF content_type.t = "None"
    THEN Raise(Exc("TypeError", <<"argument of type 'NoneType' is not iterable">>),
               "content_type") @@ [decoders |-> <<>>]
    ELSE IF Contains(content_type.v, <<"application/pdf">>)
    THEN LET images == pdf_to_images(content)
         IN  (IF ~images.ok THEN Raise(images.exc, "pdf_to_images")
              ELSE IF images.value = <<>>
              THEN Raise(HTTPException(400, <<"Empty PDF file">>), "empty_pdf")
              ELSE [ok |-> TRUE, value |-> images.value[1]])
             @@ [decoders |-> <<"pdf_to_images">>]
    ELSE IF Contains(content_type.v, <<"image">>)
    THEN LET image == ImageOpen(content)
         IN  (IF ~image.ok THEN Raise(image.exc, "Image.open")
              ELSE [ok |-> TRUE, value |-> image.value])
             @@ [decoders |-> <<"Image.open">>]
    ELSE Raise(HTTPException(400, <<"Unsupported file type. Use PDF or Image.">>),
               "unsupported") @@ [decoders |-> <<>>]

\* service.py 41-62: the chat completion request
Payload(base64_image) ==
    [url |-> "/chat/completions", max_tokens |-> 2048,
     image_url |-> <<"data:image/jpeg;base64,", base64_image>>]

\* main.py 94-96: whatever the try block raised reaches the caller as a 500
InternalServerError(e) ==
    ErrorResponse(HTTPException(500, <<"Internal Server Error: ">> \o e.msg))

\* str() of the errors of a pydantic ValidationError
RECURSIVE ErrorLines(_)
ErrorLines(errors) ==
    IF errors = <<>> THEN <<>>
    ELSE Head(errors).loc \o <<Head(errors).type>> \o ErrorLines(Tail(errors))

\* service.py 70-95: from the endpoint's reply to the validated record.  A
\* reply is a transport failure, a status with a body, or a completion.
ProcessReply(reply) ==
    IF reply.kind = "RequestError"
    THEN Raise(Exc("RuntimeError", <<"API Request failed: ">> \o reply.cause), "post")
    ELSE IF reply.status >= 400
    THEN Raise(Exc("RuntimeError",
                   <<"Processing error: ", "Server error '", StatusText[reply.status],
                     "' for url '/chat/completions'">>), "raise_for_status")
    ELSE LET content == Cleanup(reply.content)
             raw_json == JsonLoads(content)
             validated_data == ModelValidate(raw_json.value)
         IN  IF ~raw_json.ok
             THEN Raise(Exc("RuntimeError",
                            <<"Processing error: ", "Model did not return valid JSON: ">>
                            \o content), "json.loads")
             ELSE IF ~validated_data.ok
             THEN Raise(Exc("RuntimeError",
                            <<"Processing error: ", "validation errors for InvoiceData">>
                            \o ErrorLines(validated_data.errors)), "model_validate")
             ELSE [ok |-> TRUE, value |-> validated_data.value]

NewUpload ==
    [pc |-> "new", filename |-> None, content |-> None, content_type |-> None,
     decoders |-> <<>>, sent |-> <<>>, failed_at |-> "",
     db_log |-> None, created |-> 0, response |-> None]

\* the handler returns resp: the request is over and its locals are gone; what
\* stays is what it did (the decoders called, the requests sent, the rows
\* created), where it failed and the declared content type it was judged by
Respond(r, u, resp, at) ==
    upload' = [upload EXCEPT ![r] = [u EXCEPT !.pc = "done", !.response = resp,
                                              !.failed_at = at, !.filename = None,
                                              !.content = None]]

\* main.py 52-79 and service.py 32-69: from the request to the await of the
\* model endpoint's reply
UploadInvoice(r, filename, content, content_type) ==
    /\ upload[r].pc = "new"
    /\ \A q \in Uploads : q < r => upload[q].pc # "new"
    /\ LET u == [upload[r] EXCEPT !.filename = filename, !.content = content,
                                  !.content_type = content_type]
           image == Normalize(content, content_type)
           v == [u EXCEPT !.decoders = image.decoders]
           base64_image == encode_image_to_base64(image.value)
       IN  IF filename = <<>>
           THEN Respond(r, upload[r],
                        ErrorResponse(HTTPException(400, <<"No filename provided">>)),
                        "filename")
           ELSE IF ~image.ok
           THEN Respond(r, v, InternalServerError(image.exc), image.at)
           ELSE IF ~base64_image.ok
           THEN Respond(r, v, InternalServerError(base64_image.exc), "convert")
           ELSE upload' = [upload EXCEPT ![r] =
                    [v EXCEPT !.pc = "awaiting_model",
                              !.sent = <<Payload(base64_image.value)>>]]
    /\ UNCHANGED <<invoice_logs, next_id, now, call, response>>

NewInvoiceLogFirstPage(filename, file_bytes, data) ==
    [filename |-> filename, file_content |-> SubSeq(file_bytes, 1, 2),
     extracted_schema_content |-> ModelDump(data)]

\* crud.py 20-25: the row as added to the session; id and created_at are the
\* server's to assign
NewInvoiceLog(filename, file_bytes, data) ==
    [filename |-> filename, file_content |-> file_bytes,
     extracted_schema_content |-> ModelDump(data)]

ModelReplyWriteFirst(r, reply) ==
    /\ upload[r].pc = "awaiting_model"
    /\ LET u == upload[r]
           validated_data == ProcessReply(reply)
       IN  IF ~validated_data.ok
           THEN /\ Respond(r, [u EXCEPT !.created = 1],
                           InternalServerError(validated_data.exc), validated_data.at)
                /\ invoice_logs' = invoice_logs \cup
                        {[filename |-> u.filename, file_content |-> u.content,
                          extracted_schema_content |-> JNull, id |-> next_id,
                          created_at |-> now]}
                /\ next_id' = next_id + 1
                /\ UNCHANGED <<now, call, response>>
           ELSE /\ upload' = [upload EXCEPT ![r] =
                    [u EXCEPT !.pc = "insert",
                              !.created = u.created + 1,
                              !.db_log = [row |-> NewInvoiceLog(u.filename, u.content,
                                                               validated_data.value),
                                          data |-> validated_data.value]]]
                /\ UNCHANGED <<invoice_logs, next_id, now, call, response>>

ModelReplyRetry(r, reply) ==
    /\ upload[r].pc = "awaiting_model"
    /\ LET u == upload[r]
           validated_data == ProcessReply(reply)
       IN  IF ~validated_data.ok /\ Len(u.sent) < 2
           THEN upload' = [upload EXCEPT ![r] = [u EXCEPT !.sent = @ \o <<u.sent[1]>>]]
           ELSE IF ~validated_data.ok
           THEN Respond(r, u, InternalServerError(validated_data.exc), validated_data.at)
           ELSE upload' = [upload EXCEPT ![r] =
                    [u EXCEPT !.pc = "insert",
                              !.created = u.created + 1,
                              !.db_log = [row |-> NewInvoiceLog(u.filename, u.content,
                                                               validated_data.value),
                                          data |-> validated_data.value]]]
    /\ UNCHANGED <<invoice_logs, next_id, now, call, response>>

\* service.py 70-95, main.py 81-86 and crud.py 11-26: from the reply to the
\* first await inside db.commit(), where the flush has sent the INSERT
ModelReply(r, reply) ==
    /\ upload[r].pc = "awaiting_model"
    /\ LET u == upload[r]
           validated_data == ProcessReply(reply)
       IN  IF ~validated_data.ok
           THEN Respond(r, u, InternalServerError(validated_data.exc), validated_data.at)
           ELSE upload' = [upload EXCEPT ![r] =
                    [u EXCEPT !.pc = "insert",
                              !.created = u.created + 1,
                              !.db_log = [row |-> NewInvoiceLog(u.filename, u.content,
                                                               validated_data.value),
                                          data |-> validated_data.value]]]
    /\ UNCHANGED <<invoice_logs, next_id, now, call, response>>

\* the table once the transaction that inserted row under id is committed
Insert(logs, row, id, created_at) ==
    logs \cup {row @@ [id |-> id, created_at |-> created_at]}

\* the error of a database call that fails (the connection is lost)
DbError == Exc("InterfaceError", <<"connection is closed">>)

\* crud.py 26, first await of db.commit(): the server executes the INSERT in
\* a transaction of its own.  The id is the next value of the sequence (never
\* given back, also when the transaction does not commit) and created_at is
\* now() of the transaction, the time it began: other transactions may have
\* begun after it and inserted before it.  The row is not yet visible.
Flush(r) ==
    /\ upload[r].pc = "insert"
    /\ \E created_at \in {t \in {now - 1, now, now + 1} : t >= 0} :
        /\ now' = IF created_at > now THEN created_at ELSE now
        /\ upload' = [upload EXCEPT ![r] =
                [@ EXCEPT !.pc = "commit",
                          !.db_log = @ @@ [id |-> next_id, created_at |-> created_at]]]
    /\ next_id' = next_id + 1
    /\ UNCHANGED <<invoice_logs, call, response>>

\* crud.py 26, second await of db.commit(): the COMMIT; the row is in the
\* table for every reader, the request has not answered yet
Commit(r) ==
    /\ upload[r].pc = "commit"
    /\ invoice_logs' = Insert(invoice_logs, upload[r].db_log.row, upload[r].db_log.id,
                              upload[r].db_log.created_at)
    /\ upload' = [upload EXCEPT ![r] = [@ EXCEPT !.pc = "refresh"]]
    /\ UNCHANGED <<next_id, now, call, response>>

\* crud.py 27-28 and main.py 88-92: the refresh, and the response
Refresh(r) ==
    /\ upload[r].pc = "refresh"
    /\ upload' = [upload EXCEPT ![r] =
            [@ EXCEPT !.pc = "done",
                      !.response = [status |-> 200, message |-> "Success",
                                    log_id |-> upload[r].db_log.id,
                                    data |-> upload[r].db_log.data]]]
    /\ UNCHANGED <<invoice_logs, next_id, now, call, response>>

\* crud.py 26-27 and main.py 94-96: the awaited database call raises.  The
\* request answers 500; a transaction not yet committed is rolled back when
\* the session closes, a committed row stays.
DatabaseError(r) ==
    /\ upload[r].pc \in {"insert", "commit", "refresh"}
    /\ Respond(r, upload[r], InternalServerError(DbError), "db." \o upload[r].pc)
    /\ UNCHANGED <<invoice_logs, next_id, now, call, response>>

(***************************************************************************)
(* The read side: read_logs and preview_log_image.                         *)
(***************************************************************************)
\* Characters outside ASCII are written by name: DEVANAGARI_3 is U+0969, a
\* decimal digit of value 3; SUPERSCRIPT_2 is U+00B2, a digit that is not a
\* decimal one.
\* str.isdigit(): every character has the Unicode property Digit or Decimal
AsciiDigits == {"0", "1", "2", "3"}
DecimalValue == [c \in AsciiDigits \cup {"DEVANAGARI_3"} |->
                    CASE c = "0" -> 0 [] c = "1" -> 1 [] c = "2" -> 2
                      [] c = "3" -> 3 [] c = "DEVANAGARI_3" -> 3]
DigitChars == DOMAIN DecimalValue \cup {"SUPERSCRIPT_2"}

isdigit(s) == s # <<>> /\ \A i \in DOMAIN s : s[i] \in DigitChars

\* int(s), for s that passed isdigit(): the decimal value, or ValueError when
\* a character is a digit that is not a decimal one
RECURSIVE DecimalOf(_)
DecimalOf(s) ==
    IF s = <<>> THEN 0 ELSE 10 * DecimalOf(SubSeq(s, 1, Len(s) - 1)) + DecimalValue[s[Len(s)]]

int(s) ==
    IF \A i \in DOMAIN s : s[i] \in DOMAIN DecimalValue
    THEN [ok |-> TRUE, value |-> DecimalOf(s)]
    ELSE Raise(Exc("ValueError", <<"invalid literal for int() with base 10">>), "int")

Lower(c) == IF c = "A" THEN "a" ELSE IF c = "B" THEN "b" ELSE c

\* PostgreSQL's s ILIKE pattern: % matches any run of characters, _ any one
\* character, a backslash makes the next character literal; case is ignored
RECURSIVE ILike(_, _)
ILike(s, pattern) ==
    IF pattern = <<>> THEN s = <<>>
    ELSE IF Head(pattern) = "%"
    THEN ILike(s, Tail(pattern)) \/ (s # <<>> /\ ILike(Tail(s), pattern))
    ELSE IF Head(pattern) = "_"
    THEN s # <<>> /\ ILike(Tail(s), Tail(pattern))
    ELSE IF Head(pattern) = "\\" /\ Len(pattern) >= 2
    THEN s # <<>> /\ Lower(Head(s)) = Lower(pattern[2]) /\ ILike(Tail(s), SubSeq(pattern, 3, Len(pattern)))
    ELSE s # <<>> /\ Lower(Head(s)) = Lower(Head(pattern)) /\ ILike(Tail(s), Tail(pattern))

\* crud.py 51-62: the WHERE clause, or the exception raised building it
Where(logs, search_query, search_type) ==
    IF search_query.t = "None" \/ search_query.v = <<>>
    THEN [ok |-> TRUE, value |-> logs]
    ELSE IF search_type = "id"
    THEN IF isdigit(search_query.v)
         THEN LET n == int(search_query.v)
              IN  IF n.ok THEN [ok |-> TRUE, value |-> {l \in logs : l.id = n.value}]
                  ELSE n
         ELSE [ok |-> TRUE, value |-> {l \in logs : l.id = -1}]
    ELSE [ok |-> TRUE,
          value |-> {l \in logs : ILike(l.filename, <<"%">> \o search_query.v \o <<"%">>)}]

\* ORDER BY created_at DESC: every order of the rows the database may return;
\* rows of equal created_at come in any order
OrderByCreatedAtDesc(rows) ==
    {o \in [1..Cardinality(rows) -> rows] :
        /\ \A i, j \in DOMAIN o : i < j => o[i] # o[j] /\ o[i].created_at >= o[j].created_at}

\* OFFSET skip LIMIT limit
OffsetLimit(o, skip, limit) ==
    SubSeq(o, skip + 1, IF skip + limit < Len(o) THEN skip + limit ELSE Len(o))

\* crud.py 40-47 and main.py 117-126: the columns of a listed row
Metadata(l) ==
    [id |-> l.id, filename |-> l.filename, created_at |-> l.created_at,
     extracted_schema_content |-> l.extracted_schema_content,
     file_size |-> Len(l.file_content)]

\* crud.py 30-68 and main.py 98-126: every response the request may get.  An
\* exception leaves read_logs unhandled; PostgreSQL rejects a negative OFFSET
\* or LIMIT.
ReadLogsResponses(logs, skip, limit, search, type) ==
    LET where == Where(logs, search, type)
    IN  IF ~where.ok THEN {UnhandledResponse(where.exc)}
        ELSE IF skip < 0 \/ limit < 0 THEN {UnhandledResponse(Exc("DBAPIError", <<>>))}
        ELSE {[status |-> 200,
               body |-> [i \in DOMAIN OffsetLimit(o, skip, limit) |->
                            Metadata(OffsetLimit(o, skip, limit)[i])]] :
                o \in OrderByCreatedAtDesc(where.value)}

read_logs(skip, limit, search, type) ==
    /\ response' \in ReadLogsResponses(invoice_logs, skip, limit, search, type)
    /\ call' = [fn |-> "read_logs", skip |-> skip, limit |-> limit,
                search |-> search, type |-> type]
    /\ UNCHANGED <<invoice_logs, next_id, now, upload>>

\* crud.py 70-76, get_invoice_log_by_id
get_invoice_log_by_id(logs, log_id) ==
    IF \E l \in logs : l.id = log_id
    THEN CHOOSE l \in logs : l.id = log_id
    ELSE None

OutputImagePdfFirst(file_bytes) ==
    LET image == ImageOpen(file_bytes)
        images == pdf_to_images(file_bytes)
    IN  IF images.ok /\ images.value # <<>>
        THEN [value |-> images.value[1], tried |-> <<"pdf_to_images">>]
        ELSE [value |-> IF image.ok THEN image.value ELSE None,
              tried |-> <<"pdf_to_images", "Image.open">>]

\* main.py 138-153: the image to preview and the decoders tried, in order
OutputImage(file_bytes) ==
    LET image == ImageOpen(file_bytes)
        images == pdf_to_images(file_bytes)
    IN  IF image.ok THEN [value |-> image.value, tried |-> <<"Image.open">>]
        ELSE [value |-> IF images.ok /\ images.value # <<>> THEN images.value[1] ELSE None,
              tried |-> <<"Image.open", "pdf_to_images">>]

PreviewFailed(e) ==
    ErrorResponse(HTTPException(500, <<"Preview generation failed: ">> \o e.msg))

\* main.py 128-164, preview_log_image
PreviewResponse(logs, log_id) ==
    LET log == get_invoice_log_by_id(logs, log_id)
        output_image == OutputImage(log.file_content)
        jpeg == encode_image_to_base64(output_image.value)
    IN  IF log = None
        THEN [response |-> ErrorResponse(HTTPException(404, <<"Log not found">>)),
              tried |-> <<>>]
        ELSE [tried |-> output_image.tried,
              response |->
                IF output_image.value = None
                THEN PreviewFailed(HTTPException(400,
                        <<"Could not convert file content to image preview.">>))
                ELSE IF ~jpeg.ok THEN PreviewFailed(jpeg.exc)
                ELSE [status |-> 200, media_type |-> "image/jpeg",
                      body |-> [format |-> "JPEG", mode |-> "RGB",
                                pixels |-> output_image.value.pixels]]]

preview_log_image(log_id) ==
    /\ response' = PreviewResponse(invoice_logs, log_id).response
    /\ call' = [fn |-> "preview_log_image", log_id |-> log_id,
                tried |-> PreviewResponse(invoice_logs, log_id).tried]
    /\ UNCHANGED <<invoice_logs, next_id, now, upload>>

(***************************************************************************)
(* The service: concurrent uploads, reads and previews over one table.     *)
(* database.py 22-26: init_db creates the table if it is missing and never *)
(* clears it, so the service starts over the rows already there; here one  *)
(* row written by an earlier deployment, whose bytes no decoder takes.     *)
(***************************************************************************)
InitialLogs ==
    {[id |-> 1, filename |-> <<"o">>, file_content |-> JunkBytes,
      extracted_schema_content |->
          ModelDump(ModelValidate(JsonDocs[DocMinimal]).value),
      created_at |-> 0]}

Filenames == {<<>>, <<"a">>, <<"b">>}
Contents == {PngBytes, TruncatedPngBytes, PdfBytes, EmptyPdfBytes, JunkBytes}
ContentTypes == {None, PyStr(<<"application/pdf">>), PyStr(<<"image", "/png">>),
                 PyStr(<<"text/plain">>)}

Completion(content) == [kind |-> "Response", status |-> 200, content |-> content]
Replies ==
    {[kind |-> "RequestError", cause |-> <<"All connection attempts failed">>],
     [kind |-> "RequestError", cause |-> <<>>],
     [kind |-> "Response", status |-> 503, content |-> <<"overloaded">>],
     Completion(<<DocMinimal>>),
     Completion(<<"Here:", FENCE, "json", "\n", DocItem, "\n", FENCE, "Done.", FENCE>>),
     Completion(<<FENCE, "\n", DocNoStamp, FENCE>>),
     Completion(<<"I cannot read this.">>)}

Init ==
    /\ invoice_logs = InitialLogs
    /\ next_id = 2
    /\ now = 0
    /\ upload = [r \in Uploads |-> NewUpload]
    /\ call = None
    /\ response = None

Next ==
    \/ \E r \in Uploads, filename \in Filenames, content \in Contents,
          content_type \in ContentTypes :
            UploadInvoice(r, filename, content, content_type)
    \/ \E r \in Uploads, reply \in Replies : ModelReply(r, reply)
    \/ \E r \in Uploads : Flush(r)
    \/ \E r \in Uploads : Commit(r)
    \/ \E r \in Uploads : Refresh(r)
    \/ \E r \in Uploads : DatabaseError(r)
    \/ read_logs(0, 10, None, "filename")
    \/ \E log_id \in 0..(next_id - 1) : preview_log_image(log_id)

Spec == Init /\ [][Next]_vars

(***************************************************************************)
(* The pure steps, each applied to inputs drawn from a bounded set.        *)
(* Outside the step under study the service is at rest in its first state. *)
(***************************************************************************)
AtRest ==
    /\ invoice_logs = InitialLogs
    /\ next_id = 2
    /\ now = 0
    /\ upload = [r \in Uploads |-> NewUpload]

\* every sequence of at most n elements of S
SeqsUpTo(S, n) == UNION {[1..k -> S] : k \in 0..n}

(***************************************************************************)
(* SpecCleanup: the markdown cleanup on every text of at most MaxTextLen   *)
(* tokens.                                                                 *)
(***************************************************************************)
MaxTextLen == 7
TextTokens == {FENCE, "json", "\n", "{}"}

InitCleanup ==
    /\ AtRest
    /\ call \in {[fn |-> "cleanup", content |-> t] : t \in SeqsUpTo(TextTokens, MaxTextLen)}
    /\ response = None

CleanupContent ==
    /\ call.fn = "cleanup"
    /\ response = None
    /\ response' = PyStr(Cleanup(call.content))
    /\ UNCHANGED <<invoice_logs, next_id, now, upload, call>>

SpecCleanup == InitCleanup /\ [][CleanupContent]_vars

(***************************************************************************)
(* SpecValidate: validation and serialization of parsed objects: a         *)
(* complete object, with at most MaxEdits keys dropped or set to null, a   *)
(* number or a string, an undeclared key among them.                       *)
(***************************************************************************)
MaxEdits == 2

\* a parsed object with every declared key: null for the optional fields
RECURSIVE Complete(_)
Complete(kind) ==
    IF kind = "str" THEN JStr("x")
    ELSE IF kind = "Optional[str]" THEN JNull
    ELSE IF kind = "List[InvoiceItem]" THEN JArr(<<Complete("InvoiceItem")>>)
    ELSE JObj([n \in FieldNames(kind) |->
                Complete((CHOOSE f \in FieldsOf(kind) : f.name = n).kind)])

\* where an edit applies: the root object, one of its sub-objects, or the
\* first line item
Sections == {"InvoiceData", "vendor_info", "customer_info", "summary", "line_items"}
SectionModel(sec) ==
    CASE sec = "InvoiceData" -> "InvoiceData" [] sec = "vendor_info" -> "VendorInfo"
      [] sec = "customer_info" -> "CustomerInfo" [] sec = "summary" -> "Summary"
      [] sec = "line_items" -> "InvoiceItem"
SectionKeys(sec) == FieldNames(SectionModel(sec)) \cup {"note"}

HasSection(x, sec) ==
    \/ sec = "InvoiceData"
    \/ /\ sec \in DOMAIN x.v
       /\ IF sec = "line_items"
          THEN x.v[sec].t = "arr" /\ x.v[sec].v # <<>> /\ x.v[sec].v[1].t = "obj"
          ELSE x.v[sec].t = "obj"

Section(x, sec) ==
    IF sec = "InvoiceData" THEN x
    ELSE IF sec = "line_items" THEN x.v[sec].v[1] ELSE x.v[sec]

Restrict(f, S) == [k \in S |-> f[k]]

WithSection(x, sec, o) ==
    IF sec = "InvoiceData" THEN o
    ELSE IF sec = "line_items"
    THEN JObj([k \in DOMAIN x.v |->
                IF k = sec THEN JArr([x.v[sec].v EXCEPT ![1] = o]) ELSE x.v[k]])
    ELSE JObj([k \in DOMAIN x.v |-> IF k = sec THEN o ELSE x.v[k]])

DropKey(x, sec, key) ==
    WithSection(x, sec, JObj(Restrict(Section(x, sec).v, DOMAIN Section(x, sec).v \ {key})))

SetKey(x, sec, key, val) ==
    WithSection(x, sec,
        JObj([k \in DOMAIN Section(x, sec).v \cup {key} |->
                IF k = key THEN val ELSE Section(x, sec).v[k]]))

InitValidate ==
    /\ AtRest
    /\ call = [fn |-> "model_validate", raw_json |-> Complete("InvoiceData"), edits |-> 0]
    /\ response = None

Edit ==
    /\ call.fn = "model_validate"
    /\ response = None
    /\ call.edits < MaxEdits
    /\ \E sec \in Sections :
        /\ HasSection(call.raw_json, sec)
        /\ \E key \in SectionKeys(sec) :
            \/ /\ key \in DOMAIN Section(call.raw_json, sec).v
               /\ call' = [call EXCEPT !.raw_json = DropKey(@, sec, key),
                                       !.edits = @ + 1]
            \/ \E val \in {JNull, JNum(1), JStr("x")} :
                call' = [call EXCEPT !.raw_json = SetKey(@, sec, key, val),
                                     !.edits = @ + 1]
    /\ UNCHANGED <<invoice_logs, next_id, now, upload, response>>

\* service.py 88 and crud.py 23: validate, then serialize what validated
ValidateAndDump ==
    /\ call.fn = "model_validate"
    /\ response = None
    /\ LET validated_data == ModelValidate(call.raw_json)
       IN  response' = IF validated_data.ok
                       THEN validated_data @@
                            [extracted_schema_content |-> ModelDump(validated_data.value)]
                       ELSE validated_data
    /\ UNCHANGED <<invoice_logs, next_id, now, upload, call>>

NextValidate == Edit \/ ValidateAndDump

SpecValidate == InitValidate /\ [][NextValidate]_vars

(***************************************************************************)
(* SpecList: the listing query over stores the pipeline can leave behind   *)
(* (ids from the sequence, created_at in any order against the ids), for   *)
(* every search text of at most MaxSearchLen characters.                   *)
(***************************************************************************)
MaxRows == 2
MaxSearchLen == 2
ListFilenames == {<<"A", "b">>, <<"b">>}
SearchChars == {"a", "_", "%", "1", "SUPERSCRIPT_2", "DEVANAGARI_3"}

StoredLog(id, filename, created_at) ==
    [id |-> id, filename |-> filename, created_at |-> created_at,
     file_content |-> IF filename = <<"b">> THEN PdfBytes ELSE PngBytes,
     extracted_schema_content |-> ModelDump(ModelValidate(JsonDocs[DocMinimal]).value)]

Stores ==
    UNION {{ {StoredLog(i, names[i], times[i]) : i \in 1..n} :
                names \in [1..n -> ListFilenames],
                times \in [1..n -> 1..n]} :
            n \in 0..MaxRows}

InitList ==
    /\ invoice_logs \in Stores
    /\ next_id = Cardinality(invoice_logs) + 1
    /\ now = Cardinality(invoice_logs)
    /\ upload = [r \in Uploads |-> NewUpload]
    /\ call = None
    /\ response = None

NextList ==
    /\ call = None
    /\ \E skip \in {-1, 0, 1}, limit \in {-1, 1, 2}, type \in {"id", "filename"},
          search \in {None} \cup {PyStr(q) : q \in SeqsUpTo(SearchChars, MaxSearchLen)} :
            read_logs(skip, limit, search, type)

SpecList == InitList /\ [][NextList]_vars

(***************************************************************************)
(* Properties.                                                             *)
(***************************************************************************)
FnOf(c) == IF "fn" \in DOMAIN c THEN c.fn ELSE ""
Done(r) == upload[r].pc = "done"
Succeeded(r) == Done(r) /\ upload[r].response.status = 200
Failed(r) == Done(r) /\ upload[r].response.status # 200

\* the statements of upload_invoice that come before the request to the model
\* endpoint, and the statements of process_invoice_with_vllm that come after
BeforeModelCall ==
    {"filename", "content_type", "pdf_to_images", "empty_pdf", "Image.open",
     "unsupported", "convert"}
AfterModelCall == {"post", "raise_for_status", "json.loads", "model_validate"}
\* the awaited database calls of create_invoice_log
DatabaseCall == {"db.insert", "db.commit", "db.refresh"}

\* the rows of the table that upload r inserted
RowsOf(r) ==
    {l \in invoice_logs :
        /\ upload[r].db_log # None
        /\ "id" \in DOMAIN upload[r].db_log
        /\ l.id = upload[r].db_log.id}

\* C1: an upload that fails at normalization, at the model call, at parsing
\* or at validation never executed create_invoice_log and no row of the
\* table is its own; every row that was not there at the start is the row
\* of an upload that did execute create_invoice_log, so did not fail at one
\* of these stages; and the rows there at the start are still there.
C1_NoRowOnFailure ==
    /\ \A r \in Uploads :
            Failed(r) /\ upload[r].failed_at \in BeforeModelCall \cup AfterModelCall =>
                upload[r].created = 0 /\ upload[r].db_log = None /\ RowsOf(r) = {}
    /\ \A l \in invoice_logs \ InitialLogs :
            \E r \in Uploads :
                /\ l \in RowsOf(r) /\ upload[r].created = 1
                /\ upload[r].failed_at \notin BeforeModelCall \cup AfterModelCall
    /\ InitialLogs \subseteq invoice_logs

C1_Witness ==
    \E r, q \in Uploads :
        /\ Failed(r) /\ upload[r].failed_at = "json.loads"
        /\ Failed(q) /\ upload[q].failed_at = "Image.open"

\* C2: every successful upload has exactly one row under the log_id it
\* returned, holding the uploaded filename, the whole uploaded byte blob
\* (also when only page 1 of a PDF was sent to the model) and the
\* serialization of the validated record returned for that upload; and no
\* other upload returned that log_id.
C2_RowOfSuccessfulUpload ==
    \A r \in Uploads : Succeeded(r) =>
        /\ upload[r].created = 1
        /\ Cardinality({l \in invoice_logs : l.id = upload[r].response.log_id}) = 1
        /\ \A l \in invoice_logs : l.id = upload[r].response.log_id =>
            /\ l.filename = upload[r].filename
            /\ l.file_content = upload[r].content
            /\ l.extracted_schema_content = ModelDump(upload[r].response.data)
        /\ Len(upload[r].sent) = 1
        /\ upload[r].content[1] = "PDF" =>
                upload[r].sent[1].image_url[2].pixels = upload[r].content[2]
        /\ \A q \in Uploads \ {r} :
                Succeeded(q) => upload[q].response.log_id # upload[r].response.log_id

C2_Witness ==
    \E r, q \in Uploads :
        /\ r # q /\ Succeeded(r) /\ Succeeded(q)
        /\ upload[r].content = PdfBytes /\ Len(PdfBytes) > 2
        /\ upload[q].filename # upload[r].filename

\* the place of the first tagged fence of t, and of the first fence marker
\* after the tag (one past the end when there is none)
TagAt(t) ==
    LET tags == {i \in 1..(Len(t) - 1) : t[i] = FENCE /\ t[i + 1] = "json"}
    IN  IF tags = {} THEN 0 ELSE CHOOSE i \in tags : \A k \in tags : i <= k
CloseAt(t) ==
    LET closes == {j \in (TagAt(t) + 2)..Len(t) : t[j] = FENCE}
    IN  IF closes = {} THEN Len(t) + 1 ELSE CHOOSE j \in closes : \A k \in closes : j <= k
IsText(x) == x # FENCE

\* C3: the cleanup takes one of three paths, tagged fence before generic
\* fence before raw.  With a tagged fence the result is the text between the
\* first tag and the next fence marker after it (to the end when there is
\* none), trimmed of surrounding whitespace; everything before the tag and
\* from the closing marker on is dropped.  Without a tagged fence but with a
\* fence marker, the result is the text with its fence markers removed,
\* trimmed.  Without any fence marker it is the text unchanged.
C3_CleanupPrecedence ==
    (FnOf(call) = "cleanup" /\ response # None) =>
        LET t == call.content
        IN  response.v =
                IF TagAt(t) # 0 THEN Strip(SubSeq(t, TagAt(t) + 2, CloseAt(t) - 1))
                ELSE IF \E i \in DOMAIN t : t[i] = FENCE THEN Strip(SelectSeq(t, IsText))
                ELSE t

C3_Witness ==
    /\ FnOf(call) = "cleanup" /\ response # None
    /\ call.content = <<"{}", FENCE, "json", "{}", FENCE, "{}", FENCE>>
    /\ response.v = <<"{}">>

\* every key the schema declares is in x, in its sub-objects and line items
RECURSIVE HasEveryKey(_, _, _)
HasEveryKey(kind, x, requiredOnly) ==
    IF kind \in {"str", "Optional[str]"} THEN TRUE
    ELSE IF kind = "List[InvoiceItem]"
    THEN x.t = "arr" => \A i \in DOMAIN x.v : HasEveryKey("InvoiceItem", x.v[i], requiredOnly)
    ELSE x.t = "obj" =>
            \A f \in FieldsOf(kind) :
                /\ (f.required \/ ~requiredOnly) => f.name \in DOMAIN x.v
                /\ f.name \in DOMAIN x.v => HasEveryKey(f.kind, x.v[f.name], requiredOnly)

Validated == FnOf(call) = "model_validate" /\ response # None

\* C4 as claimed: validation accepts a parsed object only if it has every
\* key the schema declares, at the root and in vendor_info, customer_info,
\* each line item and summary.
C4_AsClaimed ==
    (Validated /\ response.ok) => HasEveryKey("InvoiceData", call.raw_json, FALSE)

\* C4, amended: validation rejects a parsed object in which a required key
\* is missing (vendor_info, customer_info, line_items, summary, the summary's
\* has_company_stamp, a line item's description); a missing optional key is
\* no failure but is taken as None; and the serialization that is persisted
\* has every key the schema declares, null where the object had none.
C4_RequiredKeysAndCompleteDump ==
    Validated =>
        /\ response.ok => HasEveryKey("InvoiceData", call.raw_json, TRUE)
        /\ response.ok => HasEveryKey("InvoiceData", response.extracted_schema_content, FALSE)
        /\ (~response.ok /\ HasEveryKey("InvoiceData", call.raw_json, TRUE)) =>
                \A i \in DOMAIN response.errors : response.errors[i].type # "missing"

C4_Witness ==
    /\ Validated /\ response.ok
    /\ "invoice_number" \notin DOMAIN call.raw_json.v
    /\ "phone" \notin DOMAIN call.raw_json.v["vendor_info"].v
    /\ response.extracted_schema_content.v["invoice_number"] = JNull
    /\ response.extracted_schema_content.v["vendor_info"].v["phone"] = JNull

\* a text that is a number: decimal digits only
IsNumber(q) == q # <<>> /\ \A i \in DOMAIN q : q[i] \in DOMAIN DecimalValue
Listed == FnOf(call) = "read_logs" /\ call.skip >= 0 /\ call.limit >= 0
HasText(c) == c.search # None /\ c.search.v # <<>>

\* C5 as claimed: listing by id with a filter text that is not a number
\* returns the empty list, and no error, whatever the text and the rows.
C5_NonNumericIdIsEmpty ==
    (Listed /\ call.type = "id" /\ HasText(call) /\ ~IsNumber(call.search.v)) =>
        response.status = 200 /\ response.body = <<>>

\* s contains q, case ignored
ContainsIgnoringCase(s, q) ==
    \E i \in 1..(Len(s) + 1) :
        /\ i + Len(q) - 1 <= Len(s)
        /\ \A k \in 1..Len(q) : Lower(s[i + k - 1]) = Lower(q[k])

\* the rows the claim says a filter selects
Matching(logs, c) ==
    IF ~HasText(c) THEN logs
    ELSE IF c.type = "id" THEN {l \in logs : l.id = DecimalOf(c.search.v)}
    ELSE {l \in logs : ContainsIgnoringCase(l.filename, c.search.v)}

\* C6 as claimed: the list is exactly the rows matching the filter (none:
\* all rows; id: the row of that id; filename: the rows whose filename
\* contains the text, case ignored), most recent first, cut to the positions
\* [skip, skip + limit), each entry with id, filename, created_at, the
\* structured content and the byte length, and without the bytes.
C6_ListIsMatchingRows ==
    (Listed /\ (call.type = "id" /\ HasText(call) => IsNumber(call.search.v))) =>
        /\ response.status = 200
        /\ \E o \in [1..Cardinality(Matching(invoice_logs, call)) -> Matching(invoice_logs, call)] :
            /\ \A i, j \in DOMAIN o : i < j => o[i] # o[j] /\ o[i].created_at >= o[j].created_at
            /\ DOMAIN response.body =
                    1..Cardinality({i \in DOMAIN o : call.skip < i /\ i <= call.skip + call.limit})
            /\ \A i \in DOMAIN response.body :
                    response.body[i] =
                        [id |-> o[call.skip + i].id, filename |-> o[call.skip + i].filename,
                         created_at |-> o[call.skip + i].created_at,
                         extracted_schema_content |-> o[call.skip + i].extracted_schema_content,
                         file_size |-> Len(o[call.skip + i].file_content)]

IndicatesPdf(content_type) ==
    content_type # None /\ Contains(content_type.v, <<"application/pdf">>)
IndicatesImage(content_type) ==
    content_type # None /\ Contains(content_type.v, <<"image">>)

\* C7: an upload whose declared content type, absent or not, indicates
\* neither a PDF nor an image is refused with no decoder called, no request
\* sent to the model endpoint and no row created.
C7_UnsupportedRefusedFirst ==
    \A r \in Uploads :
        (/\ upload[r].pc # "new"
         /\ ~IndicatesPdf(upload[r].content_type)
         /\ ~IndicatesImage(upload[r].content_type)) =>
            /\ Failed(r)
            /\ upload[r].decoders = <<>>
            /\ upload[r].sent = <<>>
            /\ upload[r].created = 0
            /\ RowsOf(r) = {}
            /\ \A l \in invoice_logs \ InitialLogs : \E q \in Uploads \ {r} : l \in RowsOf(q)

C7_Witness ==
    \E r, q \in Uploads :
        /\ Failed(r) /\ upload[r].failed_at = "unsupported"
        /\ upload[r].content_type = PyStr(<<"text/plain">>)
        /\ Failed(q) /\ upload[q].failed_at = "content_type"
        /\ upload[q].content_type = None

\* the kind of failure of the spec's taxonomy that a failing statement is
ErrorKind(at) ==
    CASE at \in {"content_type", "unsupported", "Image.open", "convert"} -> "UnsupportedFormat"
      [] at = "empty_pdf" -> "EmptyDocument"
      [] at = "post" -> "TransportError"
      [] at = "raise_for_status" -> "UpstreamError"
      [] at = "json.loads" -> "MalformedResponse"
      [] at = "model_validate" -> "SchemaViolation"
      [] OTHER -> "none"

\* C8 as claimed: a failed upload reaches the caller as a typed error whose
\* kind tells the stage that failed: two uploads that failed with different
\* kinds differ in the type or status of the error their callers receive.
C8_TypedErrors ==
    \A r, q \in Uploads :
        (/\ Failed(r) /\ Failed(q)
         /\ ErrorKind(upload[r].failed_at) # "none"
         /\ ErrorKind(upload[q].failed_at) # "none"
         /\ ErrorKind(upload[r].failed_at) # ErrorKind(upload[q].failed_at)) =>
            <<upload[r].response.cls, upload[r].response.status>>
                # <<upload[q].response.cls, upload[q].response.status>>

Range(f) == {f[i] : i \in DOMAIN f}
DecodableImage(b) == b # <<>> /\ b[1] = "PNG"
RenderablePdf(b) == Len(b) > 1 /\ b[1] = "PDF"
PreviewUnavailable == "Could not convert file content to image preview."

\* what a preview just made must have done, given the rows
PreviewOutcome ==
    LET rows == {l \in invoice_logs : l.id = call.log_id}
    IN  IF rows = {}
        THEN response.status = 404 /\ response.cls = "HTTPException" /\ call.tried = <<>>
        ELSE \A l \in rows :
            /\ call.tried[1] = "Image.open"
            /\ "pdf_to_images" \in Range(call.tried) <=> ~DecodableImage(l.file_content)
            /\ Len(call.tried) = 2 => call.tried[2] = "pdf_to_images"
            /\ (~DecodableImage(l.file_content) /\ RenderablePdf(l.file_content)) =>
                    response.status = 200 /\ response.body.pixels = l.file_content[2]
            /\ (~DecodableImage(l.file_content) /\ ~RenderablePdf(l.file_content)) =>
                    /\ response.cls = "HTTPException"
                    /\ response.status >= 400
                    /\ PreviewUnavailable \in Range(response.detail)

\* C9: a preview tries the image decode first and the PDF rendering only
\* when that failed, taking page 1; when both fail the caller gets an
\* HTTPException response whose detail is the preview-unavailable message;
\* a preview of an id that has no row gets 404; and whatever the outcome,
\* the step leaves every row of invoice_logs as it was.
C9_Preview ==
    [][(FnOf(call') = "preview_log_image" /\ <<call, response>>' # <<call, response>>) =>
            invoice_logs' = invoice_logs /\ PreviewOutcome']_vars

C9_Witness ==
    /\ FnOf(call) = "preview_log_image"
    /\ call.tried = <<"Image.open", "pdf_to_images">>
    /\ response.status = 500
    /\ PreviewUnavailable \in Range(response.detail)
    /\ \E l \in invoice_logs : l.id = call.log_id /\ l.file_content = JunkBytes

RowColumns == {"id", "filename", "file_content", "extracted_schema_content", "created_at"}

C10_Rows ==
    /\ \A l, m \in invoice_logs : l.id = m.id => l = m
    /\ \A l \in invoice_logs :
            /\ DOMAIN l = RowColumns
            /\ Len(l.filename) > 0 /\ Len(l.file_content) > 0
            /\ l.extracted_schema_content.t = "obj"
    /\ \A r \in Uploads : Succeeded(r) => Cardinality(RowsOf(r)) = 1
    /\ (\A r \in Uploads : Done(r)) =>
            Cardinality(invoice_logs) =
                Cardinality(InitialLogs) + Cardinality({r \in Uploads : Succeeded(r)})
    /\ (FnOf(call) = "read_logs" /\ response.status = 200) =>
            \A i \in DOMAIN response.body :
                /\ Len(response.body[i].filename) > 0
                /\ response.body[i].file_size > 0
                /\ response.body[i].extracted_schema_content.t = "obj"

C10_Step ==
    /\ invoice_logs \subseteq invoice_logs'
    /\ invoice_logs' # invoice_logs =>
        \E l \in invoice_logs' :
            /\ invoice_logs' = invoice_logs \cup {l}
            /\ \A m \in invoice_logs : m.id # l.id

\* C10 as claimed: under every interleaving of uploads, listings and
\* previews the table is append-only: a step never changes or removes a row
\* and adds at most one, under an id no other row has; every successful
\* upload has exactly one row; every row, and every entry a listing returns,
\* is whole (filename, bytes and structured content together); and when
\* every request is over the number of rows is the initial number plus the
\* number of uploads that succeeded.
C10_AppendOnly == []C10_Rows /\ [][C10_Step]_vars

C11_Sent ==
    \A r \in Uploads :
        /\ Len(upload[r].sent) <= 1
        /\ Failed(r) =>
                upload[r].failed_at \in BeforeModelCall \cup AfterModelCall \cup DatabaseCall
        /\ Failed(r) /\ upload[r].failed_at \in BeforeModelCall => upload[r].sent = <<>>
        /\ Failed(r) /\ upload[r].failed_at \in AfterModelCall => Len(upload[r].sent) = 1
        /\ (\/ upload[r].pc \in {"awaiting_model", "insert", "commit", "refresh"}
            \/ Succeeded(r)
            \/ Failed(r) /\ upload[r].failed_at \in DatabaseCall)
                => Len(upload[r].sent) = 1

C11_Step ==
    \A r \in Uploads :
        \/ upload'[r].sent = upload[r].sent
        \/ /\ upload[r].pc = "new" /\ upload[r].sent = <<>>
           /\ upload'[r].pc = "awaiting_model" /\ Len(upload'[r].sent) = 1

\* C11: every upload request sends at most one request to the model
\* endpoint: the request is sent in the step that takes the upload to the
\* await of the reply and in no other step; an upload that failed on the
\* reply (transport failure or timeout, error status, unparseable text,
\* schema violation) sent exactly one request and is over; an upload that
\* failed before the model call sent none.
C11_AtMostOneModelRequest == []C11_Sent /\ [][C11_Step]_vars

C11_Witness ==
    \E r, q \in Uploads :
        /\ Failed(r) /\ upload[r].failed_at = "post" /\ Len(upload[r].sent) = 1
        /\ \E w \in {<<"API Request failed: ">>} :
                upload[r].response.detail = <<"Internal Server Error: ">> \o w
        /\ Failed(q) /\ upload[q].failed_at = "Image.open" /\ upload[q].sent = <<>>

====
